---- MODULE Spec2Model ----
(***************************************************************************)
(* The archive pipeline of bsky-archiver.  The repository holds two        *)
(* revisions of `archive`: the stand-alone one of src/main.rs (rev =       *)
(* "main") and the one of src/lib/mod.rs, started by                       *)
(* src/lib/post_information.rs (rev = "lib").  A build is one of the two;  *)
(* the variable rev says which, and never changes.                         *)
(*                                                                         *)
(* Every button click spawns one tokio task (a "run").  A run is a         *)
(* sequence of steps separated by its await points and system calls; the   *)
(* steps of different runs interleave.  The origin service, the web        *)
(* archive and the operating system are the environment: each request and  *)
(* each filesystem call may fail.                                          *)
(***************************************************************************)
EXTENDS Integers, Sequences, FiniteSets, TLC

VARIABLES rev, exit_status, started, dirs, files, run

vars == <<rev, exit_status, started, dirs, files, run>>

(***************************************************************************)
(* Bounds of the model.                                                    *)
(***************************************************************************)
MaxImages == 3      \* longest image gallery of a thread response
MaxRuns == 1        \* button clicks of one session, one task at a time (Spec)
MaxTasks == 2       \* tasks alive on the runtime at one time (SpecConc)

Slots == 1..MaxTasks

\* Option<T>: the empty sequence is None, a sequence of one element is Some.
None == <<>>
Some(x) == <<x>>
IsSome(o) == o # <<>>
Unwrap(o) == o[1]

(***************************************************************************)
(* Text.  A string is a sequence of tokens: a token is one character, or   *)
(* one of the two literals of the pattern taken as a unit.                 *)
(***************************************************************************)
LitProfile == "profile/"
LitPost == "/post/"

AlNum == {"a", "b", "k", "j", "3"}
HandleClass == AlNum \cup {".", "_", "-"}
RecordKeyClass == AlNum \cup {".", "_", ":", "~", "-"}

\* The longest prefix of s, from position p on, whose tokens are all in class.
RECURSIVE RunLength(_, _, _)
RunLength(s, p, class) ==
    IF p > Len(s) \/ s[p] \notin class THEN 0
    ELSE 1 + RunLength(s, p + 1, class)

\* The match of  profile/([a-zA-Z0-9._-]+)/post/([A-Za-z0-9._:~-]+)  that
\* starts at position p of url, or None.  Both groups are greedy; no token
\* of a class begins the literal that follows the first group, so the only
\* candidate for it is the longest one.
MatchAt(url, p) ==
    IF p > Len(url) \/ url[p] # LitProfile THEN None
    ELSE LET hl == RunLength(url, p + 1, HandleClass)
             q  == p + 1 + hl
         IN  IF hl = 0 \/ q > Len(url) \/ url[q] # LitPost THEN None
             ELSE LET kl == RunLength(url, q + 1, RecordKeyClass)
                  IN  IF kl = 0 THEN None
                      ELSE Some([handle |-> SubSeq(url, p + 1, p + hl),
                                 key    |-> SubSeq(url, q + 1, q + kl)])

\* Regex::captures: the leftmost match anywhere in the text.
RECURSIVE CapturesFrom(_, _)
CapturesFrom(url, p) ==
    IF p > Len(url) THEN None
    ELSE IF MatchAt(url, p) # None THEN MatchAt(url, p)
    ELSE CapturesFrom(url, p + 1)

\* A regex in which the groups may be empty ( * for + ).
LaxCaptures(url) ==
    IF \E p \in 1..Len(url) : url[p] = LitProfile
    THEN Some([handle |-> <<>>, key |-> <<>>])
    ELSE None

Captures(url) == CapturesFrom(url, 1)

(***************************************************************************)
(* The URLs typed into the text field: two of one post, and five that are  *)
(* no post.                                                                *)
(***************************************************************************)
Prefix == <<"h", "/">>

Urls ==
    { Prefix \o <<LitProfile, "a", ".", "b", LitPost, "3", "k">>,
      Prefix \o <<LitProfile, "a", LitPost, "3", "k", "?", "a">>,
      Prefix \o <<LitProfile, "a", LitPost>>,
      Prefix \o <<LitProfile, LitPost, "k">>,
      Prefix \o <<LitProfile, "a", ":", LitPost, "k">>,
      Prefix \o <<"a", LitPost, "k">>,
      <<>> }

\* The URLs of the concurrent specification: two posts, and one that is no
\* post.
FewUrls ==
    { Prefix \o <<LitProfile, "a", ".", "b", LitPost, "3", "k">>,
      Prefix \o <<LitProfile, "b", LitPost, "j">>,
      Prefix \o <<LitProfile, "a", LitPost>> }

\* The URLs of the specification of paths: the record keys "." and "..",
\* which the pattern accepts, a plain one, and a URL that is no post.
OddUrls ==
    { Prefix \o <<LitProfile, "a", LitPost, ".">>,
      Prefix \o <<LitProfile, "a", LitPost, ".", ".">>,
      Prefix \o <<LitProfile, "a", LitPost, "3", "k">>,
      Prefix \o <<LitProfile, "a", LitPost>> }

(***************************************************************************)
(* Thread responses.  A body is what getPostThread answers: text that is   *)
(* not a thread view (ok = FALSE), or a thread view with its optional      *)
(* post, record and embed.  An image entry may lack its `image` or the     *)
(* `ref` inside it; so may the video lack its `ref`.                       *)
(***************************************************************************)
ImageCids == <<"c1", "c2", "c3", "c4", "c5">>
VideoCid == <<"v">>

MimeTypes == {"video/mp4", "video/mov", "video/webm", "video/mpeg", "video/x-custom"}

NoVideo == [present |-> FALSE, has_ref |-> FALSE, cid |-> <<>>, mime_type |-> ""]

Videos ==
    {NoVideo}
    \cup {[present |-> TRUE, has_ref |-> FALSE, cid |-> <<>>, mime_type |-> "video/mp4"]}
    \cup {[present |-> TRUE, has_ref |-> TRUE, cid |-> VideoCid, mime_type |-> m] :
            m \in MimeTypes}

ImageEntries(i) ==
    { [has_image |-> FALSE, has_ref |-> FALSE, cid |-> <<>>],
      [has_image |-> TRUE,  has_ref |-> FALSE, cid |-> <<>>],
      [has_image |-> TRUE,  has_ref |-> TRUE,  cid |-> <<ImageCids[i]>>] }

Complete(image) == image.has_image /\ image.has_ref

\* The galleries of up to n images.  Past its first image without a
\* reference a gallery holds complete images only.
RECURSIVE Galleries(_)
Galleries(n) ==
    IF n = 0 THEN {<<>>}
    ELSE LET longest == {h \in Galleries(n - 1) : Len(h) = n - 1}
             grown(g) == {Append(g, e) : e \in {x \in ImageEntries(n) :
                            Complete(x) \/ \A i \in 1..(n - 1) : Complete(g[i])}}
         IN  Galleries(n - 1) \cup UNION {grown(g) : g \in longest}

MalformedBody ==
    [ok |-> FALSE, has_post |-> FALSE, has_record |-> FALSE, has_embed |-> FALSE,
     images |-> <<>>, video |-> NoVideo]

Body(p, rc, e, imgs, v) ==
    [ok |-> TRUE, has_post |-> p, has_record |-> rc, has_embed |-> e,
     images |-> imgs, video |-> v]

\* A video of any kind comes with an empty gallery, an MP4 video also with a
\* gallery of one complete image; a gallery of any length comes without a
\* video.
Bodies ==
    {MalformedBody,
     Body(FALSE, FALSE, FALSE, <<>>, NoVideo),
     Body(TRUE, FALSE, FALSE, <<>>, NoVideo),
     Body(TRUE, TRUE, FALSE, <<>>, NoVideo)}
    \cup {Body(TRUE, TRUE, TRUE, g, NoVideo) : g \in Galleries(MaxImages)}
    \cup {Body(TRUE, TRUE, TRUE, <<>>, v) : v \in Videos \ {NoVideo}}
    \cup {Body(TRUE, TRUE, TRUE, g, v) :
            g \in {h \in Galleries(1) : Len(h) = 1 /\ Complete(h[1])},
            v \in {w \in Videos : w.present /\ w.mime_type = "video/mp4"}}

\* The bodies of the concurrent specification: no post, a record without
\* embed, one complete image, one video.
FewBodies ==
    {b \in Bodies : /\ b.ok
                    /\ b.has_post => b.has_record
                    /\ b.has_embed => Len(b.images) + (IF b.video.present THEN 1 ELSE 0) = 1
                    /\ b.video.mime_type \in {"", "video/mp4"}
                    /\ b.video.present => b.video.has_ref
                    /\ \A i \in 1..Len(b.images) : Complete(b.images[i])}

\* A content identifier is a JSON string: the service may send any text.
OddCid == <<".", ".", "/", "c1">>

\* The bodies of the specification of paths: one image, of a plain or of an
\* odd content identifier, or one video.
OddBodies ==
    {Body(TRUE, TRUE, TRUE, <<[has_image |-> TRUE, has_ref |-> TRUE, cid |-> cid]>>, NoVideo) :
        cid \in {OddCid, <<ImageCids[1]>>}}
    \cup {Body(TRUE, TRUE, TRUE, <<>>, v) :
            v \in {w \in Videos : w.has_ref /\ w.mime_type = "video/mp4"}}

(***************************************************************************)
(* The nested-optional data model, as each revision declares it.           *)
(***************************************************************************)
\* main.rs: image and ref are Option; a body of the thread shape parses.
\* lib/mod.rs reads image.image.referer.cid and video.referer.cid with no
\* Option in between: the fields are required, and serde rejects a body
\* that lacks one.
Deserializes(rv, body) ==
    /\ body.ok
    /\ rv = "lib" =>
         /\ \A i \in 1..Len(body.images) : Complete(body.images[i])
         /\ body.video.present => body.video.has_ref

\* if let Some(post) = post_data.thread.post { if let Some(record) = post.record
AcceptsAnyBody(body) == TRUE

HasRecord(body) == body.has_post /\ body.has_record

\* impl From<&str> for MediaType
MediaTypeFrom(value) ==
    CASE value = "video/mp4"  -> "Mp4"
      [] value = "video/mov"  -> "Mov"
      [] value = "video/webm" -> "Webm"
      [] value = "video/mpeg" -> "Mpeg"
      [] OTHER                -> "Invalid"

\* impl Into<&str> for MediaType
MediaTypeInto(media_type) ==
    CASE media_type = "Mp4"  -> "mp4"
      [] media_type = "Mov"  -> "mov"
      [] media_type = "Webm" -> "webm"
      [] media_type = "Mpeg" -> "mpeg"
      [] OTHER               -> "Invalid media type"

\* The extension of the video file: main.rs names every video .mp4.
VideoExtension(rv, mime_type) ==
    IF rv = "lib" THEN MediaTypeInto(MediaTypeFrom(mime_type)) ELSE "mp4"

(***************************************************************************)
(* The filesystem under the working directory.  A name is a string of      *)
(* tokens, a path a sequence of names, counted from the working directory  *)
(* (the empty path).  dirs holds the directories that exist, files maps    *)
(* the files that exist to their contents.                                 *)
(*                                                                         *)
(* The program names a file by a text, format!("./posts/{}/{}.png", ..),   *)
(* and the operating system finds the place the text leads to: it walks    *)
(* the components between the slashes, "." staying and ".." going up.  A   *)
(* text is kept as its components: those of a text made of parts joined    *)
(* by slashes are those of the parts, one after the other.                 *)
(***************************************************************************)
Dot == <<".">>
DotDot == <<".", ".">>

\* The components of a text, what stands between its slashes: those of the
\* rest of the text, after the name read so far.
RECURSIVE SplitFrom(_, _)
SplitFrom(name, rest) ==
    IF rest = <<>> THEN <<name>>
    ELSE IF Head(rest) = "/" THEN <<name>> \o SplitFrom(<<>>, Tail(rest))
    ELSE SplitFrom(Append(name, Head(rest)), Tail(rest))

Components(text) == SplitFrom(<<>>, text)

\* The place one component leads to from the place `at`.
Enter(at, c) ==
    CASE c = <<>> \/ c = Dot -> at
      [] c = DotDot /\ at # <<>> /\ at[Len(at)] # DotDot -> SubSeq(at, 1, Len(at) - 1)
      [] OTHER -> Append(at, c)

\* The place reached from `at` by the components, one after the other.
RECURSIVE Walk(_, _)
Walk(at, comps) ==
    IF comps = <<>> THEN at ELSE Walk(Enter(at, Head(comps)), Tail(comps))

Locate(text) == Walk(<<>>, text)

\* format!("./posts"), format!("./posts/{}", key), format!("./posts/{}/raw.json",
\* key) and format!("./posts/{}/{}.{}", key, cid, ext).
PostsText == <<Dot, <<"posts">>>>
PostDirText(key) == PostsText \o Components(key)
RawJsonText(key) == PostDirText(key) \o << <<"raw", ".", "json">> >>
MediaText(key, cid, ext) == PostDirText(key) \o Components(cid \o <<".", ext>>)

PostsDir == Locate(PostsText)
PostDir(key) == Locate(PostDirText(key))
RawJson(key) == Locate(RawJsonText(key))
MediaFile(key, cid, ext) == Locate(MediaText(key, cid, ext))

Parent(path) == SubSeq(path, 1, Len(path) - 1)

\* The directory is there: the working directory and what lies above it, or
\* one that was created.
Exists(dir) == dir \in dirs \/ \A i \in 1..Len(dir) : dir[i] = DotDot

\* The walk passes only through directories that exist, up to the last
\* component, which names the thing to create.
RECURSIVE Passes(_, _)
Passes(at, comps) ==
    Len(comps) <= 1 \/ (/\ Exists(Enter(at, Head(comps)))
                        /\ Passes(Enter(at, Head(comps)), Tail(comps)))

Walkable(text) == Passes(<<>>, text)

\* The contents of a file: the body of the thread response of run id, the
\* blob of a content identifier, or less than what was to be written (the
\* file was created or truncated, and the write failed or stopped short).
Incomplete == [kind |-> "incomplete", run |-> 0, cid |-> <<>>]
ThreadBytes(id) == [kind |-> "thread", run |-> id, cid |-> <<>>]
BlobBytes(cid) == [kind |-> "blob", run |-> 0, cid |-> cid]

WithFile(fs, path, content) ==
    [p \in DOMAIN fs \cup {path} |-> IF p = path THEN content ELSE fs[p]]

\* What is on disk at a path: the contents of the file, or None.
OnDisk(path) == IF path \in DOMAIN files THEN Some(files[path]) ELSE None

\* The files kept under a directory.
Inside(dir, path) == Len(path) > Len(dir) /\ SubSeq(path, 1, Len(dir)) = dir

FilesUnder(dir) == {q \in DOMAIN files : Inside(dir, q)}

\* fs::create_dir: the walk gets to the parent, and the place is free.
CanCreateDir(text) ==
    LET path == Locate(text)
    IN  /\ Walkable(text)
        /\ ~Exists(path)
        /\ path \notin DOMAIN files

\* File::create (exclusive = FALSE) and File::create_new (exclusive = TRUE).
CanCreateFile(text, exclusive) ==
    LET path == Locate(text)
    IN  /\ Walkable(text)
        /\ Exists(Parent(path))
        /\ ~Exists(path)
        /\ exclusive => path \notin DOMAIN files

(***************************************************************************)
(* Runs.                                                                   *)
(***************************************************************************)
\* process::exit codes.
ExitNoPostMain == 69
ExitNoVideoRef == 71
ExitNoPostLib == 100

IdleRun ==
    [pc |-> "idle", id |-> 0, url |-> <<>>, posts_dir_exists |-> FALSE,
     caps |-> None, jwt |-> 0, did |-> <<>>, body |-> MalformedBody, i |-> 0,
     result |-> "", err |-> "", trace |-> <<>>,
     dir_existed |-> FALSE, snap |-> None, had |-> {}, denied |-> FALSE]

\* One entry of a run's history: a request sent, or a filesystem call made.
Request(op, arg, auth, ok) == [op |-> op, target |-> <<arg>>, auth |-> auth, ok |-> ok]
FsCall(op, path, ok) == [op |-> op, target |-> path, auth |-> 0, ok |-> ok]

Log(rec, event) == [rec EXCEPT !.trace = Append(@, event)]

\* The operating system refused a call that the state of the disk allowed
\* (permissions, a full disk, an interrupted write).
Deny(rec, refused) == [rec EXCEPT !.denied = @ \/ refused]
Goto(rec, pc) == [rec EXCEPT !.pc = pc]
\* A failed step left where it is, to be tried again.
TryAgain(rec, err) == rec

ReturnErr(rec, err) == [rec EXCEPT !.pc = "done", !.result = "Err", !.err = err]
ReturnOk(rec) == [rec EXCEPT !.pc = "done", !.result = "Ok"]
Panic(rec) == [rec EXCEPT !.pc = "panicked"]
Exit(rec) == [rec EXCEPT !.pc = "exited"]

Key(rec) == Unwrap(rec.caps).key
Handle(rec) == Unwrap(rec.caps).handle

\* The bearer token the service issues to a session, and the DID of a handle.
AccessJwt(id) == id
DidOf(handle) == <<"did", ":">> \o handle

Running == exit_status = 0

\* The disk a session starts on: no ./posts yet, an empty ./posts, or the
\* archive of a post that an earlier session (run 0) left behind, cut short
\* in its first image.
ArchivedKey == <<"3", "k">>

PriorDisks ==
    { [dirs |-> {}, files |-> << >>],
      [dirs |-> {PostsDir}, files |-> << >>],
      [dirs |-> {PostsDir, PostDir(ArchivedKey)},
       files |-> WithFile(WithFile(<< >>, RawJson(ArchivedKey), ThreadBytes(0)),
                          MediaFile(ArchivedKey, <<ImageCids[1]>>, "png"),
                          Incomplete)] }

Init ==
    /\ rev \in {"main", "lib"}
    /\ exit_status = 0
    /\ started = 0
    /\ \E disk \in PriorDisks : dirs = disk.dirs /\ files = disk.files
    /\ run = [r \in Slots |-> IdleRun]

\* build_gui, the Archive button clicked: the task is spawned.  lib looks for
\* ./posts here, once, and hands the answer to the task.
BuildGui(r, concurrent, urls) ==
    /\ Running
    /\ run[r].pc = "idle"
    /\ IF concurrent THEN started < MaxTasks
       ELSE started < MaxRuns /\ r = 1 /\ \A s \in Slots : run[s].pc = "idle"
    /\ \E url \in urls :
         run' = [run EXCEPT ![r] =
                   [IdleRun EXCEPT !.pc = "extract", !.id = started + 1, !.url = url,
                                   !.posts_dir_exists =
                                       (rev = "lib" /\ PostsDir \in dirs)]]
    /\ started' = started + 1
    /\ UNCHANGED <<rev, exit_status, dirs, files>>

\* The runtime drops a finished task.
Retire(r) ==
    /\ Running
    /\ run[r].pc \in {"done", "panicked"}
    /\ run' = [run EXCEPT ![r] = IdleRun]
    /\ UNCHANGED <<rev, exit_status, started, dirs, files>>

\* archive: the captures of the URL, or the process exits.
ExtractPostId(r) ==
    /\ Running
    /\ run[r].pc = "extract"
    /\ LET captures == Captures(run[r].url)
       IN  IF IsSome(captures)
           THEN /\ run' = [run EXCEPT ![r] = [Goto(@, "auth") EXCEPT !.caps = captures]]
                /\ UNCHANGED exit_status
           ELSE /\ exit_status' = IF rev = "lib" THEN ExitNoPostLib ELSE ExitNoPostMain
                /\ run' = [run EXCEPT ![r] = Exit(@)]
    /\ UNCHANGED <<rev, started, dirs, files>>

\* POST createSession; the answer parsed as BskyCreds.
CreateSession(r) ==
    /\ Running
    /\ run[r].pc = "auth"
    /\ \E out \in {"send_err", "bytes_err", "bad_json", "ok"} :
         LET rec == Log(run[r], Request("createSession", <<>>, 0, out = "ok"))
         IN  run' = [run EXCEPT ![r] =
                       CASE out = "ok" -> [Goto(rec, "resolve") EXCEPT
                                              !.jwt = AccessJwt(rec.id)]
                         [] out = "bad_json" -> ReturnErr(rec, "Deserialize")
                         [] OTHER -> ReturnErr(rec, "Reqwest")]
    /\ UNCHANGED <<rev, exit_status, started, dirs, files>>

\* GET resolveHandle?handle=<handle>; the answer parsed as Did.
ResolveHandle(r) ==
    /\ Running
    /\ run[r].pc = "resolve"
    /\ \E out \in {"send_err", "bytes_err", "bad_json", "ok"} :
         LET rec == Log(run[r], Request("resolveHandle", Handle(run[r]), 0, out = "ok"))
         IN  run' = [run EXCEPT ![r] =
                       CASE out = "ok" -> [Goto(rec, "thread") EXCEPT
                                              !.did = DidOf(Handle(rec))]
                         [] out = "bad_json" -> ReturnErr(rec, "Deserialize")
                         [] OTHER -> ReturnErr(rec, "Reqwest")]
    /\ UNCHANGED <<rev, exit_status, started, dirs, files>>

\* What a run does with the parsed thread: persist it, or go on to the mirror.
AfterThread(rec, body) ==
    IF HasRecord(body)
    THEN [Goto(rec, IF rev = "lib" THEN "mkroot" ELSE "mkdir") EXCEPT
            !.body = body,
            !.dir_existed = (PostDir(Key(rec)) \in dirs),
            !.snap = OnDisk(RawJson(Key(rec))),
            !.had = FilesUnder(PostDir(Key(rec)))]
    ELSE [Goto(rec, "mirror") EXCEPT !.body = body]

\* GET getPostThread with the bearer token; the answer parsed as ThreadData.
GetPostThread(r, bodies) ==
    /\ Running
    /\ run[r].pc = "thread"
    /\ LET sent(ok) == Log(run[r], Request("getPostThread",
                                            run[r].did \o <<"/">> \o Key(run[r]),
                                            run[r].jwt, ok))
       IN  \/ run' = [run EXCEPT ![r] = ReturnErr(sent(FALSE), "Reqwest")]
           \/ \E body \in bodies :
                run' = [run EXCEPT ![r] =
                          IF Deserializes(rev, body) THEN AfterThread(sent(TRUE), body)
                          ELSE ReturnErr([sent(FALSE) EXCEPT !.body = body],
                                         "Deserialize")]
    /\ UNCHANGED <<rev, exit_status, started, dirs, files>>

\* lib: if !posts_dir_exists { fs::create_dir("./posts")? }
CreatePostsDir(r) ==
    /\ Running
    /\ run[r].pc = "mkroot"
    /\ IF run[r].posts_dir_exists
       THEN /\ run' = [run EXCEPT ![r] = Goto(@, "mkdir")]
            /\ UNCHANGED dirs
       ELSE \E io_ok \in BOOLEAN :
              LET can == CanCreateDir(PostsText)
                  ok == io_ok /\ can
                  rec == Deny(Log(run[r], FsCall("create_dir", PostsDir, ok)),
                              ~io_ok /\ can)
              IN  /\ dirs' = IF ok THEN dirs \cup {PostsDir} ELSE dirs
                  /\ run' = [run EXCEPT ![r] =
                               IF ok THEN Goto(rec, "mkdir") ELSE ReturnErr(rec, "Io")]
    /\ UNCHANGED <<rev, exit_status, started, files>>

\* What follows fs::create_dir("./posts/<key>"): lib returns its error with ?,
\* main.rs drops it ( let _ = ).
AfterCreatePostDir(rec, ok) ==
    IF ok \/ rev = "main" THEN Goto(rec, "raw") ELSE ReturnErr(rec, "Io")

CreatePostDir(r) ==
    /\ Running
    /\ run[r].pc = "mkdir"
    /\ LET text == PostDirText(Key(run[r]))
           path == Locate(text)
           can == CanCreateDir(text)
       IN  \E io_ok \in BOOLEAN :
             LET ok == io_ok /\ can
                 rec == Deny(Log(run[r], FsCall("create_dir", path, ok)), ~io_ok /\ can)
             IN  /\ dirs' = IF ok THEN dirs \cup {path} ELSE dirs
                 /\ run' = [run EXCEPT ![r] = AfterCreatePostDir(rec, ok)]
    /\ UNCHANGED <<rev, exit_status, started, files>>

\* A file created and written.  exclusive: create_new for create.  all:
\* write_all for write (write may stop short and still return Ok).  checked:
\* the result of the write is returned with ?, not dropped.  next is the run
\* past the two calls.
SaveFile(r, text, bytes, exclusive, all, checked, next) ==
    LET path == Locate(text)
        can == CanCreateFile(text, exclusive)
    IN
    \E out \in {"create_err", "write_err", "short", "ok"} :
      LET created == out # "create_err" /\ can
          rec1 == Deny(Log(run[r], FsCall("create", path, created)),
                       out = "create_err" /\ can)
          rec2 == Deny(Log(rec1, FsCall("write", path, out # "write_err")),
                       out \in {"write_err", "short"})
      IN  /\ out = "short" => ~all
          /\ out = "create_err" \/ created
          /\ files' = CASE ~created -> files
                        [] out \in {"write_err", "short"} -> WithFile(files, path, Incomplete)
                        [] OTHER -> WithFile(files, path, bytes)
          /\ run' = [run EXCEPT ![r] =
                       CASE ~created -> ReturnErr(rec1, "Io")
                         [] out = "write_err" /\ checked -> ReturnErr(rec2, "Io")
                         [] OTHER -> [rec2 EXCEPT !.pc = next.pc, !.i = next.i]]

\* raw.json: lib  File::create_new(..)?  then  write_all(..)? ;
\* main.rs  File::create(..)?  then  let _ = file.write(..).
RawJsonExclusive(rv) == rv = "lib"

SaveRawJson(r) ==
    /\ Running
    /\ run[r].pc = "raw"
    /\ SaveFile(r, RawJsonText(Key(run[r])),
                ThreadBytes(run[r].id),
                RawJsonExclusive(rev), rev = "lib", rev = "lib",
                [pc |-> IF run[r].body.has_embed THEN "image" ELSE "mirror", i |-> 1])
    /\ UNCHANGED <<rev, exit_status, started, dirs>>

\* main.rs: an image without `image` or without `ref` ends the loop (break).
\* lib has no such test: the parsed types hold a reference in every image.
BreaksAt(rv, image) == rv = "main" /\ ~(image.has_image /\ image.has_ref)

\* for image in media.images: GET getBlob?did=<did>&cid=<cid>
GetImageBlob(r) ==
    /\ Running
    /\ run[r].pc = "image"
    /\ LET rec == run[r]
           images == rec.body.images
       IN  IF rec.i > Len(images) \/ BreaksAt(rev, images[rec.i])
           THEN run' = [run EXCEPT ![r] = Goto(rec, "video")]
           ELSE \E ok \in BOOLEAN :
                  LET sent == Log(rec, Request("getBlob", images[rec.i].cid, 0, ok))
                  IN  run' = [run EXCEPT ![r] =
                                IF ok THEN Goto(sent, "imgsave")
                                ELSE ReturnErr(sent, "Reqwest")]
    /\ UNCHANGED <<rev, exit_status, started, dirs, files>>

\* File::create("./posts/<key>/<cid>.png")? ; main.rs drops the result of the
\* write, lib returns it with ? (write, not write_all, in both).
SaveImage(r) ==
    /\ Running
    /\ run[r].pc = "imgsave"
    /\ LET cid == run[r].body.images[run[r].i].cid
       IN  SaveFile(r, MediaText(Key(run[r]), cid, "png"),
                    BlobBytes(cid),
                    FALSE, FALSE, rev = "lib",
                    [pc |-> "image", i |-> run[r].i + 1])
    /\ UNCHANGED <<rev, exit_status, started, dirs>>

\* if let Some(video) = media.video: main.rs exits the process when the
\* video has no `ref`; the blob is asked for with the bearer token in lib
\* only; main.rs panics when the body cannot be read.
GetVideoBlob(r) ==
    /\ Running
    /\ run[r].pc = "video"
    /\ LET rec == run[r]
           video == rec.body.video
           sent(ok) == Log(rec, Request("getBlob", video.cid,
                                        IF rev = "lib" THEN rec.jwt ELSE 0, ok))
       IN  CASE ~video.present ->
                  /\ run' = [run EXCEPT ![r] = Goto(rec, "mirror")]
                  /\ UNCHANGED exit_status
             [] video.present /\ ~video.has_ref ->
                  /\ exit_status' = ExitNoVideoRef
                  /\ run' = [run EXCEPT ![r] = Exit(rec)]
             [] OTHER ->
                  /\ \E out \in {"send_err", "bytes_err", "ok"} :
                       run' = [run EXCEPT ![r] =
                                 CASE out = "ok" -> Goto(sent(TRUE), "vidsave")
                                   [] out = "bytes_err" /\ rev = "main" -> Panic(sent(FALSE))
                                   [] OTHER -> ReturnErr(sent(FALSE), "Reqwest")]
                  /\ UNCHANGED exit_status
    /\ UNCHANGED <<rev, started, dirs, files>>

\* File::create("./posts/<key>/<cid>.<ext>")? ; lib write_all(..)? ,
\* main.rs  let _ = image_file.write(..).
SaveVideo(r) ==
    /\ Running
    /\ run[r].pc = "vidsave"
    /\ LET video == run[r].body.video
       IN  SaveFile(r, MediaText(Key(run[r]), video.cid, VideoExtension(rev, video.mime_type)),
                    BlobBytes(video.cid),
                    FALSE, rev = "lib", rev = "lib",
                    [pc |-> "mirror", i |-> run[r].i])
    /\ UNCHANGED <<rev, exit_status, started, dirs>>

\* "Archiving externally...": main.rs sends GET web.archive.org/save/<url> and
\* drops the result; in lib the request is commented out.
SendsMirror(rv) == rv = "main"

ArchiveExternally(r) ==
    /\ Running
    /\ run[r].pc = "mirror"
    /\ \E ok \in BOOLEAN :
         run' = [run EXCEPT ![r] =
                   ReturnOk(IF SendsMirror(rev)
                            THEN Log(@, Request("save", @.url, 0, ok)) ELSE @)]
    /\ UNCHANGED <<rev, exit_status, started, dirs, files>>

(***************************************************************************)
(* Specifications.  Spec: the clicks come one after the other, each when   *)
(* the task before it is over.  SpecConc: a click may come while a task    *)
(* runs, so that two tasks interleave.  SpecPaths: as Spec, with the       *)
(* record keys and content identifiers that are no plain names.            *)
(***************************************************************************)
Step(r, bodies) ==
    \/ Retire(r)
    \/ ExtractPostId(r)
    \/ CreateSession(r)
    \/ ResolveHandle(r)
    \/ GetPostThread(r, bodies)
    \/ CreatePostsDir(r)
    \/ CreatePostDir(r)
    \/ SaveRawJson(r)
    \/ GetImageBlob(r)
    \/ SaveImage(r)
    \/ GetVideoBlob(r)
    \/ SaveVideo(r)
    \/ ArchiveExternally(r)

Next == \E r \in Slots : BuildGui(r, FALSE, Urls) \/ Step(r, Bodies)

NextConc == \E r \in Slots : BuildGui(r, TRUE, FewUrls) \/ Step(r, FewBodies)

NextPaths == \E r \in Slots : BuildGui(r, FALSE, OddUrls) \/ Step(r, OddBodies)

Spec == Init /\ [][Next]_vars

SpecConc == Init /\ [][NextConc]_vars

SpecPaths == Init /\ [][NextPaths]_vars

(***************************************************************************)
(* What the claims speak of.                                               *)
(***************************************************************************)
\* The grammar profile/<handle>/post/<recordKey>, read off its words: some
\* stretch of the URL is the first literal, one or more handle characters,
\* the second literal, and one or more record-key characters.
MatchesGrammar(url) ==
    \E p \in 1..Len(url) :
        /\ url[p] = LitProfile
        /\ \E q \in (p + 2)..Len(url) :
              /\ url[q] = LitPost
              /\ \A i \in (p + 1)..(q - 1) : url[i] \in HandleClass
              /\ \E e \in (q + 1)..Len(url) :
                    \A i \in (q + 1)..e : url[i] \in RecordKeyClass

Spawned(r) == run[r].pc # "idle"

NetworkOps == {"createSession", "resolveHandle", "getPostThread", "getBlob", "save"}
FsOps == {"create_dir", "create", "write"}

EventsOf(r, ops) == {i \in 1..Len(run[r].trace) : run[r].trace[i].op \in ops}

\* The thread response of run r has arrived and is a thread view.
Received(r) == run[r].body.ok

\* C4: a run whose URL does not match the grammar sends no request and makes
\* no filesystem call; it stays where it started until it ends the process,
\* with the status kept for this case: not zero, and not the status of the
\* other exit.
C4_NoMatchExits ==
    \A r \in Slots :
        Spawned(r) /\ ~MatchesGrammar(run[r].url) =>
            /\ run[r].trace = <<>>
            /\ run[r].pc \in {"extract", "exited"}
            /\ run[r].pc = "exited" =>
                 /\ exit_status = IF rev = "lib" THEN ExitNoPostLib ELSE ExitNoPostMain
                 /\ exit_status \notin {0, ExitNoVideoRef}

C4_Witness ==
    \E r \in Slots :
        /\ ~MatchesGrammar(run[r].url)
        /\ run[r].url # <<>>
        /\ run[r].pc = "exited"
        /\ exit_status # 0

\* C5: once the thread response has arrived without a post, the run makes no
\* filesystem call and asks for no blob, and it ends by returning Ok.
C5_NoPostNoFiles ==
    \A r \in Slots :
        Received(r) /\ ~run[r].body.has_post =>
            /\ EventsOf(r, FsOps \cup {"getBlob"}) = {}
            /\ run[r].pc \in {"mirror", "done"}
            /\ run[r].pc = "done" => run[r].result = "Ok"

C5_Witness ==
    \E r \in Slots :
        /\ Received(r) /\ ~run[r].body.has_post
        /\ run[r].pc = "done" /\ run[r].result = "Ok"
        /\ EventsOf(r, {"getPostThread"}) # {}

\* The run is past the parse of a thread that holds a post with a record: it
\* has reached local persistence.
Persisting(r) == Received(r) /\ HasRecord(run[r].body) /\ IsSome(run[r].caps)
                 /\ ~(run[r].pc = "done" /\ run[r].err = "Deserialize")

\* C1: a run that reaches local persistence when ./posts/<recordKey> exists
\* goes no further than the creation of the directories, returns a filesystem
\* error, and leaves raw.json as it found it.
C1_ExistingArchiveKept ==
    \A r \in Slots :
        Persisting(r) /\ run[r].dir_existed =>
            /\ OnDisk(RawJson(Key(run[r]))) = run[r].snap
            /\ run[r].pc \in {"mkroot", "mkdir", "done"}
            /\ run[r].pc = "done" => run[r].result = "Err" /\ run[r].err = "Io"

\* The index of the first image of a gallery that has no media reference
\* (one past the end when every image has one).
RECURSIVE FirstMissing(_, _)
FirstMissing(images, i) ==
    IF i > Len(images) \/ ~Complete(images[i]) THEN i
    ELSE FirstMissing(images, i + 1)

\* The blob requests of a run and the files it created, in the order made.
RECURSIVE Targets(_, _, _)
Targets(trace, op, oks) ==
    IF trace = <<>> THEN <<>>
    ELSE (IF trace[1].op = op /\ trace[1].ok \in oks THEN <<trace[1].target>> ELSE <<>>)
         \o Targets(Tail(trace), op, oks)

IsPrefix(s, t) == Len(s) <= Len(t) /\ s = SubSeq(t, 1, Len(s))

PastImages(r) == run[r].pc \in {"video", "vidsave", "mirror", "exited", "panicked"}
                 \/ (run[r].pc = "done" /\ run[r].result = "Ok")

\* C2: with k the first image that has no media reference, the blobs asked
\* for and the image files written are those of the images before k, in
\* order, all of them once the run is past the gallery; and a run does not
\* fail on a thread view for the reference it lacks.
C2_StopAtFirstMissing ==
    \A r \in Slots :
        Received(r) /\ HasRecord(run[r].body) /\ ~run[r].body.video.present =>
            LET images == run[r].body.images
                k == FirstMissing(images, 1)
                blobs == [i \in 1..(k - 1) |-> <<images[i].cid>>]
                pngs == [i \in 1..(k - 1) |-> MediaFile(Key(run[r]), images[i].cid, "png")]
                asked == Targets(run[r].trace, "getBlob", BOOLEAN)
                made == Targets(run[r].trace, "write", BOOLEAN)
            IN  /\ IsPrefix(asked, blobs)
                /\ made = <<>> \/ IsPrefix(Tail(made), pngs)
                /\ PastImages(r) => asked = blobs /\ Tail(made) = pngs
                /\ ~(run[r].pc = "done" /\ run[r].err = "Deserialize")

\* The extension the specification gives a declared MIME type.
ClaimedExtension(mime_type) ==
    CASE mime_type = "video/mp4"  -> "mp4"
      [] mime_type = "video/mov"  -> "mov"
      [] mime_type = "video/webm" -> "webm"
      [] mime_type = "video/mpeg" -> "mpeg"
      [] OTHER                    -> "Invalid media type"

\* C3: the file a run creates for a downloaded video is
\* <contentId>.<extension of the declared MIME type>.
C3_VideoExtension ==
    \A r \in Slots :
        \A i \in EventsOf(r, {"create"}) :
            LET video == run[r].body.video
                made == run[r].trace[i].target
            IN  made[3][1] = VideoCid[1] =>
                    made = MediaFile(Key(run[r]), video.cid,
                                     ClaimedExtension(video.mime_type))

\* C6: a run that returns Ok has sent GET web.archive.org/save/<url> for the
\* URL it was given, as the last thing it did.
C6_MirrorBeforeOk ==
    \A r \in Slots :
        run[r].pc = "done" /\ run[r].result = "Ok" =>
            /\ run[r].trace # <<>>
            /\ LET last == run[r].trace[Len(run[r].trace)]
               IN  last.op = "save" /\ last.target = <<run[r].url>>

\* C7: a request or filesystem call of steps 2 to 6 that fails is the last
\* thing the run does, and the run has returned Err.
C7_FailureStopsRun ==
    \A r \in Slots :
        \A i \in EventsOf(r, (NetworkOps \cup FsOps) \ {"save"}) :
            ~run[r].trace[i].ok =>
                /\ i = Len(run[r].trace)
                /\ run[r].pc = "done" /\ run[r].result = "Err"

\* The files under ./posts/<key> that run r has created or written to.
Written(r, key) ==
    {run[r].trace[i].target : i \in {j \in EventsOf(r, {"create", "write"}) :
        /\ run[r].trace[j].ok
        /\ SubSeq(run[r].trace[j].target, 1, 2) = PostDir(key)}}

InFlight(r) == run[r].pc \notin {"idle", "done", "panicked", "exited"}

CreatedPostDir(r) ==
    /\ IsSome(run[r].caps)
    /\ \E i \in EventsOf(r, {"create_dir"}) :
          run[r].trace[i] = FsCall("create_dir", PostDir(Key(run[r])), TRUE)

\* C8: of two runs for one record key that are under way together, at most
\* one has created or written a file under ./posts/<key>; and when one of
\* them has created the directory, the other writes nothing there and, past
\* its own attempt to create it, has returned a filesystem error.
C8_OneWriterPerKey ==
    \A r1, r2 \in Slots :
        (/\ r1 # r2
         /\ IsSome(run[r1].caps) /\ IsSome(run[r2].caps)
         /\ Key(run[r1]) = Key(run[r2])
         /\ InFlight(r1)) =>
            LET key == Key(run[r1])
            IN  /\ InFlight(r2) => Written(r1, key) = {} \/ Written(r2, key) = {}
                /\ CreatedPostDir(r1) =>
                     /\ Written(r2, key) = {}
                     /\ run[r2].pc \in {"auth", "resolve", "thread", "mkroot", "mkdir",
                                        "mirror", "done"}
                     /\ (\E i \in EventsOf(r2, {"create_dir"}) :
                            run[r2].trace[i].target = PostDir(key)) =>
                          run[r2].pc = "done" /\ run[r2].err = "Io"

\* C9: a run whose thread has a video without media reference never returns
\* Ok and creates no file but raw.json and the images; a run whose thread has
\* an image without media reference, and no such video, is not failed by the
\* parse of that thread.
C9_VideoFatalImageSoft ==
    \A r \in Slots :
        Received(r) /\ HasRecord(run[r].body) =>
            LET body == run[r].body
                videoless == body.video.present /\ ~body.video.has_ref
                imageless == \E i \in 1..Len(body.images) : ~Complete(body.images[i])
            IN  /\ videoless =>
                     /\ ~(run[r].pc = "done" /\ run[r].result = "Ok")
                     /\ \A i \in EventsOf(r, {"create"}) :
                          \/ run[r].trace[i].target = RawJson(Key(run[r]))
                          \/ \E j \in 1..Len(body.images) :
                               run[r].trace[i].target =
                                   MediaFile(Key(run[r]), body.images[j].cid, "png")
                /\ imageless /\ ~videoless =>
                     ~(run[r].pc = "done" /\ run[r].err = "Deserialize")

\* C10: in a run that created ./posts/<key>, every blob request comes after
\* the write of raw.json, and from the end of that write on, whatever the
\* embed and whatever fails later, raw.json holds the bytes of the thread
\* response of this run.
C10_RawJsonFirst ==
    \A r \in Slots :
        CreatedPostDir(r) =>
            LET raw == RawJson(Key(run[r]))
                wrote == {i \in EventsOf(r, {"write"}) :
                            run[r].trace[i].target = raw /\ run[r].trace[i].ok}
            IN  /\ \A j \in EventsOf(r, {"getBlob"}) : \E i \in wrote : i < j
                /\ wrote # {} \/ run[r].pc \in {"image", "imgsave", "video", "vidsave",
                                                "mirror", "exited", "panicked"}
                     => OnDisk(raw) = Some(ThreadBytes(run[r].id))

\* The run is over: it returned, panicked, or ended the process.
Ended(r) == run[r].pc \in {"done", "panicked", "exited"}

\* Nothing outside the program failed the run: every request it sent was
\* answered, and the operating system refused no call the disk allowed.
NoFault(r) ==
    /\ ~run[r].denied
    /\ \A i \in EventsOf(r, {"createSession", "resolveHandle", "getBlob"}) :
          run[r].trace[i].ok

\* The image files of the thread of run r that were on disk, under
\* ./posts/<recordKey>, when the run came to persist: what an earlier run for
\* the same record key left of the same media.
LeftBefore(r) ==
    LET images == run[r].body.images
    IN  {MediaFile(Key(run[r]), images[i].cid, "png") :
            i \in 1..(FirstMissing(images, 1) - 1)} \cap run[r].had

Created(r) == {run[r].trace[i].target :
                 i \in {j \in EventsOf(r, {"create"}) : run[r].trace[j].ok}}

\* C11: a later run for a record key overwrites the media an earlier run
\* left: when nothing outside the program fails it, a run that finds image
\* files of its thread under ./posts/<recordKey> has, by its end, created
\* each of those paths again.
C11_RetryRewritesMedia ==
    \A r \in Slots :
        Persisting(r) /\ Ended(r) /\ NoFault(r) => LeftBefore(r) \subseteq Created(r)

\* A run found an image file of its thread on disk and wrote the path again.
C11_Rewritten ==
    \E r \in Slots :
        Persisting(r) /\ LeftBefore(r) \cap Created(r) # {}

\* The events of run r of one kind that succeeded, before event i.
DoneBefore(r, op, i) ==
    {j \in EventsOf(r, {op}) : j < i /\ run[r].trace[j].ok}

\* C12: a run sends each of createSession, resolveHandle and getPostThread
\* at most once; resolveHandle only after the session was parsed,
\* getPostThread only after the DID was parsed and with the bearer token of
\* this run's session; every filesystem call comes after the parse of the
\* thread, and every blob request after the write of raw.json.
C12_StrictOrder ==
    \A r \in Slots :
        /\ \A op \in {"createSession", "resolveHandle", "getPostThread"} :
              Cardinality(EventsOf(r, {op})) <= 1
        /\ \A i \in EventsOf(r, {"resolveHandle"}) :
              DoneBefore(r, "createSession", i) # {}
        /\ \A i \in EventsOf(r, {"getPostThread"}) :
              /\ DoneBefore(r, "resolveHandle", i) # {}
              /\ run[r].trace[i].auth = run[r].jwt
              /\ run[r].jwt = AccessJwt(run[r].id) /\ run[r].jwt # 0
              /\ run[r].trace[i].target = <<DidOf(Handle(run[r])) \o <<"/">> \o Key(run[r])>>
        /\ \A i \in EventsOf(r, FsOps) :
              DoneBefore(r, "getPostThread", i) # {}
        /\ \A i \in EventsOf(r, {"getBlob"}) :
              \E j \in EventsOf(r, {"write"}) :
                  j < i /\ run[r].trace[j].target = RawJson(Key(run[r]))

\* A run went through the five steps: it asked for a blob.
C12_Witness ==
    \E r \in Slots :
        /\ EventsOf(r, {"getBlob"}) # {}
        /\ run[r].pc = "done" /\ run[r].result = "Ok"
        /\ Cardinality(EventsOf(r, {"createSession", "resolveHandle", "getPostThread"})) = 3

\* Every task started is still on the runtime, and no other one is of the
\* record key of run r: what happens to ./posts/<recordKey> is r's doing.
OwnsKey(r) ==
    /\ started = Cardinality({s \in Slots : Spawned(s)})
    /\ \A s \in Slots \ {r} : IsSome(run[s].caps) => Key(run[s]) # Key(run[r])

\* C13: a run that comes to persist when ./posts/<recordKey> does not exist,
\* and that nothing outside the program fails, ends with ./posts present and
\* raw.json holding its thread response: whether ./posts was there at the
\* click or not, and whatever the other runs did in between.
C13_RootNeverFails ==
    \A r \in Slots :
        (/\ Persisting(r) /\ ~run[r].dir_existed
         /\ OwnsKey(r) /\ Ended(r) /\ NoFault(r)) =>
            /\ PostsDir \in dirs
            /\ OnDisk(RawJson(Key(run[r]))) = Some(ThreadBytes(run[r].id))

\* C14: nothing is rolled back and nothing is retried.  What a run created
\* under ./posts/<recordKey> is on disk when it is over, however it ended;
\* and a run that comes to persist when ./posts/<recordKey> exists asks for
\* no blob, creates and writes no file, leaves under the directory the files
\* it found, and ends at the creation of the directory with a filesystem
\* error.
C14_NoRollbackNoRetry ==
    \A r \in Slots :
        /\ CreatedPostDir(r) /\ Ended(r) =>
              /\ PostDir(Key(run[r])) \in dirs
              /\ Created(r) \subseteq DOMAIN files
        /\ Persisting(r) /\ run[r].dir_existed =>
              /\ EventsOf(r, {"getBlob"}) = {}
              /\ Created(r) = {}
              /\ FilesUnder(PostDir(Key(run[r]))) = run[r].had
              /\ run[r].pc \in {"mkroot", "mkdir", "done"}
              /\ run[r].pc = "done" =>
                    /\ run[r].result = "Err" /\ run[r].err = "Io"
                    /\ run[r].trace[Len(run[r].trace)] =
                          FsCall("create_dir", PostDir(Key(run[r])), FALSE)

\* A run over a partial archive has ended: the image is still cut short.
C14_Witness ==
    \E r \in Slots :
        /\ Persisting(r) /\ run[r].dir_existed /\ run[r].pc = "done"
        /\ run[r].body.images # <<>>
        /\ \E p \in run[r].had : OnDisk(p) = Some(Incomplete)

\* C15: whatever the record key and the content identifiers, every
\* directory a run creates and every file it creates or writes is ./posts
\* or lies below ./posts, in the directory of the run's record key.
C15_StaysInPostDir ==
    \A r \in Slots :
        \A i \in EventsOf(r, FsOps) :
            LET made == run[r].trace[i].target
                own == PostDir(Key(run[r]))
            IN  run[r].trace[i].ok =>
                    \/ made = PostsDir
                    \/ /\ Inside(PostsDir, made)
                       /\ made = own \/ Inside(own, made)

(***************************************************************************)
(* The two revisions apart: each of the statements above that fails of     *)
(* the repository holds of one of its revisions.                           *)
(***************************************************************************)
InLib(P) == rev = "lib" => P
InMain(P) == rev = "main" => P

\* lib/mod.rs keeps C1, C3, C7, C8 and C10.
LibKeepsC1 == InLib(C1_ExistingArchiveKept)
LibKeepsC3 == InLib(C3_VideoExtension)
LibKeepsC7 == InLib(C7_FailureStopsRun)
LibKeepsC8 == InLib(C8_OneWriterPerKey)
LibKeepsC10 == InLib(C10_RawJsonFirst)

\* main.rs keeps C2, C6 and C9.
MainKeepsC2 == InMain(C2_StopAtFirstMissing)
MainKeepsC6 == InMain(C6_MirrorBeforeOk)
MainKeepsC9 == InMain(C9_VideoFatalImageSoft)

\* main.rs keeps C11; in lib/mod.rs no run writes a media path again.
MainKeepsC11 == InMain(C11_RetryRewritesMedia)
LibNeverRewrites == InLib(~C11_Rewritten)

\* lib/mod.rs keeps C14.
LibKeepsC14 == InLib(C14_NoRollbackNoRetry)

\* C15 fails of both revisions: of main.rs by the record key ".." and by a
\* content identifier that holds a slash, of lib/mod.rs by the latter.
PlainCids(r) == \A i \in 1..Len(run[r].body.images) : "/" \notin
                    {run[r].body.images[i].cid[j] : j \in 1..Len(run[r].body.images[i].cid)}

LibKeepsC15PlainCids == InLib((\A r \in Slots : PlainCids(r)) => C15_StaysInPostDir)

\* C13 fails of both revisions.  lib/mod.rs keeps it as long as the runs come
\* one after the other: LibKeepsC13 holds of Spec, and not of SpecConc.
LibKeepsC13 == InLib(C13_RootNeverFails)

====
